---- MODULE Spec2Model ----
(***************************************************************************)
(* Real-time funding-rate monitor (real_time_monitor.py): the connection   *)
(* supervisors (monitor_exchange), the per-exchange parsers, the           *)
(* significance filter (should_process_update), the update queue with its  *)
(* consumer (process_updates) and the periodic sweep (periodic_cleanup).   *)
(*                                                                         *)
(* Numbers.  A Python float is modelled as a record [nan, v]: either NaN   *)
(* or the exact fixed-point number v / Unit.  Arithmetic on finite values  *)
(* is exact (no rounding); every comparison with NaN is false, as in IEEE  *)
(* 754.  A quotient (change_percent) is kept as the exact fraction         *)
(* num / den.                                                              *)
(* Strings that the code takes apart (instrument names, dictionary keys)   *)
(* are sequences of one-character strings.                                 *)
(* Time is the wall clock in whole seconds; one call of                    *)
(* process_websocket_message stamps all its events with the same second.   *)
(***************************************************************************)
EXTENDS Integers, Sequences, FiniteSets, TLC

\* ------------------------------------------------------------ bounds
\* Longest update_queue the model explores (the code's queue.Queue() has no
\* maxsize): an enqueue that would exceed it is not explored.
MaxQueue == 2
\* Most items in one wire payload.
MaxItems == 2
\* Most abnormal closures counted in stats['connections_lost'] (the counter
\* has no limit in the code): a further one is not explored.
MaxLost == 2
\* Most events queued while the consumer awaits one run of the callback.
MaxBacklog == 12

\* ------------------------------------------------------------ floats
\* Fixed-point denominator: the float v / Unit is held as the integer v.
Unit == 10000

NaN == [nan |-> TRUE, v |-> 0]
Fin(x) == [nan |-> FALSE, v |-> x]

AbsInt(x) == IF x < 0 THEN -x ELSE x

\* abs(x)
FAbs(x) == IF x.nan THEN NaN ELSE Fin(AbsInt(x.v))
\* x * k for a whole number k
FMulInt(x, k) == IF x.nan THEN NaN ELSE Fin(x.v * k)
\* x - y
FSub(x, y) == IF x.nan \/ y.nan THEN NaN ELSE Fin(x.v - y.v)
\* x < k, x > k, x >= k, x == k, x != k for a whole number k
FLtInt(x, k) == ~x.nan /\ x.v < k * Unit
FGtInt(x, k) == ~x.nan /\ x.v > k * Unit
FGeInt(x, k) == ~x.nan /\ x.v >= k * Unit
FLeInt(x, k) == ~x.nan /\ x.v <= k * Unit
FEqInt(x, k) == ~x.nan /\ x.v = k * Unit
FNeInt(x, k) == x.nan \/ x.v # k * Unit

\* A quotient of two floats times 100, kept exact: num / den.
QNaN == [nan |-> TRUE, num |-> 0, den |-> 1]
QZero == [nan |-> FALSE, num |-> 0, den |-> 1]
\* (x / y) * 100 for y != 0
FDivTimes100(x, y) ==
    IF x.nan \/ y.nan THEN QNaN
    ELSE IF y.v < 0 THEN [nan |-> FALSE, num |-> -(x.v * 100), den |-> -y.v]
    ELSE [nan |-> FALSE, num |-> x.v * 100, den |-> y.v]
\* q < k for a whole number k (den > 0)
QLtInt(q, k) == ~q.nan /\ q.num < k * q.den
QGeInt(q, k) == ~q.nan /\ q.num >= k * q.den
\* two quotients denote the same number
QEq(p, q) == ~p.nan /\ ~q.nan /\ p.num * q.den = q.num * p.den

\* ------------------------------------------------------------ strings
\* s starts with pat at position i
MatchAt(s, pat, i) ==
    /\ i + Len(pat) - 1 <= Len(s)
    /\ \A j \in 1..Len(pat) : s[i + j - 1] = pat[j]

RECURSIVE ReplaceFrom(_, _, _)
ReplaceFrom(s, pat, i) ==
    IF i > Len(s) THEN <<>>
    ELSE IF MatchAt(s, pat, i) THEN ReplaceFrom(s, pat, i + Len(pat))
    ELSE <<s[i]>> \o ReplaceFrom(s, pat, i + 1)

\* str.replace(pat, ''): every non-overlapping occurrence, left to right
Replace(s, pat) == ReplaceFrom(s, pat, 1)

USDT == <<"U","S","D","T">>
USD == <<"U","S","D">>

\* ------------------------------------------------------------ config
min_apr_threshold == 50
alert_apr_threshold == 100
max_reconnects == 10

TOP_50_COINS ==
    { <<"B","T","C">>, <<"E","T","H">>, <<"U","S","D","T">>,
      <<"X","R","P">>, <<"B","N","B">>, <<"S","O","L">>,
      <<"U","S","D","C">>, <<"T","R","X">>, <<"D","O","G","E">>,
      <<"A","D","A">>, <<"W","B","T","C">>, <<"S","U","I">>,
      <<"L","I","N","K">>, <<"B","C","H">>, <<"L","E","O">>,
      <<"X","L","M">>, <<"A","V","A","X">>, <<"T","O","N">>,
      <<"W","B","T">>, <<"S","H","I","B">>, <<"H","B","A","R">>,
      <<"L","T","C">>, <<"X","M","R">>, <<"D","O","T">>,
      <<"D","A","I">>, <<"B","G","B">>, <<"U","N","I">>,
      <<"P","E","P","E">>, <<"A","A","V","E">>, <<"A","P","T">>,
      <<"T","A","O">>, <<"O","K","B">>, <<"N","E","A","R">>,
      <<"I","C","P">>, <<"C","R","O">>, <<"E","T","C">>,
      <<"O","N","D","O">>, <<"M","N","T">>, <<"T","K","X">>,
      <<"G","T">>, <<"K","A","S">>, <<"F","T","N">>,
      <<"P","O","L">>, <<"V","E","T">>, <<"T","R","U","M","P">>,
      <<"R","E","N","D","E","R">>, <<"S","E","I">>, <<"E","N","A">>,
      <<"F","E","T">> }

\* The sources whose supervisors are explored (parsing_config.websocket_sources
\* lists five; okx, gateio and bitget parse like bybit).
Sources == {"binance", "bybit"}

\* The characters of the exchange name a parser writes into its events.
ExchangeChars(exchange) ==
    IF exchange = "Binance" THEN <<"B","i","n","a","n","c","e">>
    ELSE <<"B","y","b","i","t">>

\* ------------------------------------------------------------ FundingUpdate
\* A validation that tests the rate only.
FundingUpdateRaises_rate_only(symbol, funding_rate) ==
    FGtInt(FAbs(funding_rate), 50)

\* FundingUpdate.__post_init__ raises ValueError
FundingUpdateRaises(symbol, funding_rate) ==
    \/ Len(symbol) < 2
    \/ FGtInt(FAbs(funding_rate), 50)

\* An event whose APR counts one funding period a day instead of three.
FundingUpdate_daily(symbol, funding_rate, apr, exchange, timestamp) ==
    [ symbol |-> symbol,
      funding_rate |-> funding_rate,
      apr |-> IF FEqInt(apr, 0) THEN FMulInt(FAbs(funding_rate), 365) ELSE apr,
      exchange |-> exchange,
      timestamp |-> timestamp,
      change_percent |-> QZero ]

\* The constructed event (when __post_init__ does not raise).
FundingUpdate(symbol, funding_rate, apr, exchange, timestamp) ==
    [ symbol |-> symbol,
      funding_rate |-> funding_rate,
      apr |-> IF FEqInt(apr, 0) THEN FMulInt(FMulInt(FAbs(funding_rate), 3), 365)
              ELSE apr,
      exchange |-> exchange,
      timestamp |-> timestamp,
      change_percent |-> QZero ]

\* ------------------------------------------------------------ wire payloads
\* One element of a payload's ticker list.  obj: it is a JSON object;
\* hasS, s: its instrument-name field ('s' / 'symbol') and the name;
\* rk, r: its funding-rate field ('r' / 'fundingRate'): "missing", "num" (the
\* number r / Unit), "nan" (the text NaN, which float() accepts) or "bad" (a
\* text float() rejects).
Item(obj, hasS, s, rk, r) ==
    [obj |-> obj, hasS |-> hasS, s |-> s, rk |-> rk, r |-> r]

\* A raw message.  valid: json.loads accepts it; shape: "list" (a JSON
\* array whose elements are items), "dict" (an object; hasData: it has a
\* 'data' member that is the array items) or "scalar" (a number or null).
Message(valid, shape, hasData, items) ==
    [valid |-> valid, shape |-> shape, hasData |-> hasData, items |-> items]

\* ticker.get('s', '')
ItemSymbol(item) == IF item.hasS THEN item.s ELSE <<>>

\* float(ticker.get('r', 0)) raises ValueError
ItemRateRaises(item) == item.rk = "bad"

\* float(ticker.get('r', 0))
ItemRate(item) ==
    IF item.rk = "nan" THEN NaN
    ELSE IF item.rk = "num" THEN Fin(item.r)
    ELSE Fin(0)

\* symbol = name.replace('USDT', '').replace('USD', '')
StripQuote(name) == Replace(Replace(name, USDT), USD)

\* The instrument names that occur in the payloads: XYZUSDT, QQUSD, BTCUSDT,
\* XUSDT, the empty name of a missing field, and bitcoin in lower case
\* (btcusdt) and against another quote currency (BTCUSDC).
nXYZ == <<"X","Y","Z","U","S","D","T">>
nQQ == <<"Q","Q","U","S","D">>
nBTC == <<"B","T","C","U","S","D","T">>
nX == <<"X","U","S","D","T">>
nbtc == <<"b","t","c","u","s","d","t">>
nBTCUSDC == <<"B","T","C","U","S","D","C">>
Names == {nXYZ, nQQ, nBTC, nX, <<>>, nbtc, nBTCUSDC}

\* StripQuote of each of them, evaluated once.
SymbolOf == [name \in Names |-> StripQuote(name)]

\* A loop body without the test 'funding_rate != 0'.
ItemOutcome_keeps_zero(item) ==
    IF ~item.obj THEN "raise"
    ELSE LET symbol == SymbolOf[ItemSymbol(item)] IN
         IF symbol \in TOP_50_COINS THEN "skip"
         ELSE IF ItemRateRaises(item) THEN "raise"
         ELSE IF FundingUpdateRaises(symbol, FMulInt(ItemRate(item), 100))
              THEN "raise"
         ELSE "append"

\* One pass of a parser's loop body over item: "raise" (an exception leaves the
\* loop), "skip" (continue, or rate 0: nothing appended) or "append".
ItemOutcome(item) ==
    IF ~item.obj THEN "raise"
    ELSE LET symbol == SymbolOf[ItemSymbol(item)] IN
         IF symbol \in TOP_50_COINS THEN "skip"
         ELSE IF ItemRateRaises(item) THEN "raise"
         ELSE LET funding_rate == ItemRate(item) IN
              IF ~FNeInt(funding_rate, 0) THEN "skip"
              ELSE IF FundingUpdateRaises(symbol, FMulInt(funding_rate, 100))
                   THEN "raise"
              ELSE "append"

\* The event a parser appends for item.
ItemUpdate(item, exchange, timestamp) ==
    FundingUpdate(SymbolOf[ItemSymbol(item)],
                  FMulInt(ItemRate(item), 100),
                  Fin(0), exchange, timestamp)

\* The for loop of a parser from item i on, inside the parser's try: an
\* exception ends the loop and the parser returns the updates appended so far.
RECURSIVE ParseLoop(_, _, _, _, _)
ParseLoop(items, i, updates, exchange, timestamp) ==
    IF i > Len(items) THEN updates
    ELSE LET outcome == ItemOutcome(items[i]) IN
         IF outcome = "raise" THEN updates
         ELSE IF outcome = "skip"
              THEN ParseLoop(items, i + 1, updates, exchange, timestamp)
         ELSE ParseLoop(items, i + 1,
                        Append(updates, ItemUpdate(items[i], exchange, timestamp)),
                        exchange, timestamp)

parse_binance_data(data, timestamp) ==
    IF data.shape = "list"
    THEN ParseLoop(data.items, 1, <<>>, "Binance", timestamp)
    ELSE <<>>

parse_bybit_data(data, timestamp) ==
    IF data.shape = "dict" /\ data.hasData
    THEN ParseLoop(data.items, 1, <<>>, "Bybit", timestamp)
    ELSE <<>>

\* ------------------------------------------------------------ filter
\* key = f"{update.symbol}_{update.exchange}"
Key(update) == update.symbol \o <<"_">> \o ExchangeChars(update.exchange)

\* self.last_funding_data[key] = update
Store_existing_only(lfd, key, update) ==
    [k \in DOMAIN lfd |-> IF k = key THEN update ELSE lfd[k]]
Store(lfd, key, update) ==
    [k \in (DOMAIN lfd) \cup {key} |-> IF k = key THEN update ELSE lfd[k]]

\* update.apr < bot_config.min_apr_threshold
BelowFloor_never(update) == FALSE
BelowFloor(update) == FLtInt(update.apr, min_apr_threshold)

\* time_diff.total_seconds() < 60
InsideWindow_reversed(update, last_update) ==
    update.timestamp - last_update.timestamp > 60
InsideWindow(update, last_update) ==
    update.timestamp - last_update.timestamp < 60

\* change_percent = (change / abs(last)) * 100 if last != 0 else 0
ChangePercent(update, last_update) ==
    LET change == FAbs(FSub(update.funding_rate, last_update.funding_rate))
    IN IF FNeInt(last_update.funding_rate, 0)
       THEN FDivTimes100(change, FAbs(last_update.funding_rate))
       ELSE QZero

\* change_percent < 10
Insignificant(change_percent) == QLtInt(change_percent, 10)

\* should_process_update on the filter map lfd: the decision, the map
\* afterwards and the update as it leaves the call (change_percent stamped).
should_process_update_magnitude_first(update, lfd) ==
    IF BelowFloor(update)
    THEN [accept |-> FALSE, lfd |-> lfd, update |-> update]
    ELSE LET key == Key(update) IN
         IF key \in DOMAIN lfd
         THEN LET last_update == lfd[key]
                  change_percent == ChangePercent(update, last_update)
                  stamped == [update EXCEPT !.change_percent = change_percent]
              IN IF ~Insignificant(change_percent)
                 THEN [accept |-> TRUE, lfd |-> Store(lfd, key, stamped),
                       update |-> stamped]
                 ELSE [accept |-> FALSE, lfd |-> lfd, update |-> stamped]
         ELSE [accept |-> TRUE, lfd |-> Store(lfd, key, update),
               update |-> update]
\* A filter that records a reading it rejects for its small change.
should_process_update_tracks_rejected(update, lfd) ==
    IF BelowFloor(update)
    THEN [accept |-> FALSE, lfd |-> lfd, update |-> update]
    ELSE LET key == Key(update) IN
         IF key \in DOMAIN lfd
         THEN LET last_update == lfd[key] IN
              IF InsideWindow(update, last_update)
              THEN [accept |-> FALSE, lfd |-> lfd, update |-> update]
              ELSE LET change_percent == ChangePercent(update, last_update)
                       stamped == [update EXCEPT
                                     !.change_percent = change_percent]
                   IN IF Insignificant(change_percent)
                      THEN [accept |-> FALSE,
                            lfd |-> Store(lfd, key, stamped),
                            update |-> stamped]
                      ELSE [accept |-> TRUE,
                            lfd |-> Store(lfd, key, stamped),
                            update |-> stamped]
         ELSE [accept |-> TRUE, lfd |-> Store(lfd, key, update),
               update |-> update]
should_process_update(update, lfd) ==
    IF BelowFloor(update)
    THEN [accept |-> FALSE, lfd |-> lfd, update |-> update]
    ELSE LET key == Key(update) IN
         IF key \in DOMAIN lfd
         THEN LET last_update == lfd[key] IN
              IF InsideWindow(update, last_update)
              THEN [accept |-> FALSE, lfd |-> lfd, update |-> update]
              ELSE LET change_percent == ChangePercent(update, last_update)
                       stamped == [update EXCEPT
                                     !.change_percent = change_percent]
                   IN IF Insignificant(change_percent)
                      THEN [accept |-> FALSE, lfd |-> lfd, update |-> stamped]
                      ELSE [accept |-> TRUE,
                            lfd |-> Store(lfd, key, stamped),
                            update |-> stamped]
         ELSE [accept |-> TRUE, lfd |-> Store(lfd, key, update),
               update |-> update]

\* ------------------------------------------------------------ message handling
\* A loop whose decisions all read the filter map as it was before the first
\* update, and write their entries afterwards.
RECURSIVE FilterLoop_stale_prior(_, _, _)
FilterLoop_stale_prior(updates, i, st) ==
    IF i > Len(updates) THEN st
    ELSE LET first == IF st.log = <<>> THEN st.lfd
                      ELSE st.log[1].lfd_before
             update == updates[i]
             key == Key(update)
             had == key \in DOMAIN first
             res == should_process_update(update, first)
             after == IF res.accept THEN Store(st.lfd, key, res.update)
                      ELSE st.lfd
             entry == [ update |-> update,
                        had |-> had,
                        prior |-> IF had THEN first[key]
                                  ELSE update,
                        accept |-> res.accept,
                        out |-> res.update,
                        lfd_before |-> st.lfd,
                        lfd_after |-> after ]
         IN FilterLoop_stale_prior(updates, i + 1,
                [ lfd |-> after,
                  queue |-> IF res.accept THEN Append(st.queue, res.update)
                            ELSE st.queue,
                  total |-> IF res.accept THEN st.total + 1 ELSE st.total,
                  log |-> Append(st.log, entry) ])

\* The loop "for update in funding_updates" of process_websocket_message from
\* update i on: st = [lfd, queue, total, log]; log records every decision of
\* should_process_update (the update as passed in, whether the key had an
\* entry and which, the decision, the update as it left the call, the filter
\* map before and after the call).
RECURSIVE FilterLoop(_, _, _)
FilterLoop(updates, i, st) ==
    IF i > Len(updates) THEN st
    ELSE LET update == updates[i]
             key == Key(update)
             had == key \in DOMAIN st.lfd
             res == should_process_update(update, st.lfd)
             entry == [ update |-> update,
                        had |-> had,
                        prior |-> IF had THEN st.lfd[key] ELSE update,
                        accept |-> res.accept,
                        out |-> res.update,
                        lfd_before |-> st.lfd,
                        lfd_after |-> res.lfd ]
         IN FilterLoop(updates, i + 1,
                [ lfd |-> res.lfd,
                  queue |-> IF res.accept THEN Append(st.queue, res.update)
                            ELSE st.queue,
                  total |-> IF res.accept THEN st.total + 1 ELSE st.total,
                  log |-> Append(st.log, entry) ])

\* The list a source's parser returns for message (json.loads succeeded).
ParserResult(src, message, timestamp) ==
    IF src = "binance" THEN parse_binance_data(message, timestamp)
    ELSE parse_bybit_data(message, timestamp)

\* A handler that counts one update for a message, however many of its
\* readings it queued.
process_websocket_message_once(src, message, timestamp, lfd, queue, total) ==
    LET st0 == [lfd |-> lfd, queue |-> queue, total |-> total, log |-> <<>>]
    IN IF ~message.valid THEN st0
       ELSE LET r == FilterLoop(ParserResult(src, message, timestamp), 1, st0)
            IN [r EXCEPT !.total = IF r.queue # queue THEN total + 1
                                   ELSE total]

\* process_websocket_message(message, exchange) at time timestamp, on the
\* filter map lfd, the queue and stats['total_updates'].
process_websocket_message(src, message, timestamp, lfd, queue, total) ==
    LET st0 == [lfd |-> lfd, queue |-> queue, total |-> total, log |-> <<>>]
    IN IF ~message.valid THEN st0
       ELSE FilterLoop(ParserResult(src, message, timestamp), 1, st0)

\* ------------------------------------------------------------ inputs
\* Items that become events: XYZ at 0.0004 (APR 43.8, under the floor), at
\* 0.0020 (APR 219) and at 0.0022 (10 % above 0.0020), and QQ at -0.0020.
GoodItems ==
    { Item(TRUE, TRUE, nXYZ, "num", 4), Item(TRUE, TRUE, nXYZ, "num", 20),
      Item(TRUE, TRUE, nXYZ, "num", 22), Item(TRUE, TRUE, nQQ, "num", -20) }

\* Items a parser skips: a denylisted coin, a zero rate, no rate field.
SkippedItems ==
    { Item(TRUE, TRUE, nBTC, "num", 20), Item(TRUE, TRUE, nXYZ, "num", 0),
      Item(TRUE, TRUE, nXYZ, "missing", 0) }

\* Items that cannot become a valid event: not an object, a rate that is no
\* number, a rate out of range (0.5001 -> 50.01 %), a one-letter symbol, no
\* symbol.
BadItems ==
    { Item(FALSE, FALSE, <<>>, "missing", 0),
      Item(TRUE, TRUE, nXYZ, "bad", 0),
      Item(TRUE, TRUE, nXYZ, "num", 5001),
      Item(TRUE, TRUE, nX, "num", 20),
      Item(TRUE, FALSE, <<>>, "num", 20) }

\* The textual rate NaN: float() accepts it.
NaNItems == { Item(TRUE, TRUE, nXYZ, "nan", 0) }

\* All sequences of at most n elements of S.
SeqsUpTo(S, n) == UNION { [1..k -> S] : k \in 0..n }

\* The envelope a source's parser reads its items from.
Envelope(s, items) ==
    IF s = "binance" THEN Message(TRUE, "list", FALSE, items)
    ELSE Message(TRUE, "dict", TRUE, items)

\* Traffic the parsers accept.  binance sends one ticker of XYZ at a time
\* (at 0.0004, 0.0020 or 0.0022, or with the rate text NaN), or two tickers
\* in one payload (XYZ and QQ; XYZ twice); bybit sends XYZ at 0.0020.
BinanceTickers ==
    { Envelope("binance", <<item>>) :
        item \in { i \in GoodItems : i.s = nXYZ } \cup NaNItems }
    \cup { Envelope("binance", << Item(TRUE, TRUE, nXYZ, "num", 20),
                                  Item(TRUE, TRUE, nQQ, "num", -20) >>),
           Envelope("binance", << Item(TRUE, TRUE, nXYZ, "num", 20),
                                  Item(TRUE, TRUE, nXYZ, "num", 22) >>) }

BybitTickers == { Envelope("bybit", << Item(TRUE, TRUE, nXYZ, "num", 20) >>) }

FilterMessages(s) == IF s = "binance" THEN BinanceTickers ELSE BybitTickers

\* Traffic with payloads the parsers cannot read.  The items are a good one
\* (XYZ at 0.0020), the ones a parser skips and the ones that cannot become
\* a valid event; binance sends every sequence of at most MaxItems of them
\* as a JSON array, and both sources send
\* text that is no JSON, a JSON scalar, an object without 'data' and the
\* envelope of the other source.
ParseItems ==
    { Item(TRUE, TRUE, nXYZ, "num", 20) } \cup SkippedItems \cup BadItems

\* Wire rates of different magnitude: 0.0005 (0.05 %, APR 54.75) and 2.
ScaleItems ==
    { Item(TRUE, TRUE, nXYZ, "num", 5), Item(TRUE, TRUE, nXYZ, "num", 2 * Unit) }

\* Bitcoin under names the quote stripping leaves outside the denylist.
OtherNameItems ==
    { Item(TRUE, TRUE, nbtc, "num", 20), Item(TRUE, TRUE, nBTCUSDC, "num", 20) }

NoJSON == Message(FALSE, "scalar", FALSE, <<>>)
Scalar == Message(TRUE, "scalar", FALSE, <<>>)
NoData == Message(TRUE, "dict", FALSE, <<>>)

BinancePayloads ==
    { Envelope("binance", items) : items \in SeqsUpTo(ParseItems, MaxItems) }
    \cup { NoJSON, Scalar, NoData,
           Envelope("bybit", << Item(TRUE, TRUE, nXYZ, "num", 20) >>) }

BybitPayloads ==
    { NoJSON, Scalar, NoData,
      Envelope("binance", << Item(TRUE, TRUE, nXYZ, "num", 20) >>),
      Envelope("bybit", << Item(TRUE, TRUE, nXYZ, "num", 20) >>),
      Envelope("bybit", << Item(TRUE, TRUE, nXYZ, "num", 20),
                           Item(FALSE, FALSE, <<>>, "missing", 0) >>),
      Envelope("bybit", << Item(TRUE, TRUE, nXYZ, "bad", 0),
                           Item(TRUE, TRUE, nXYZ, "num", 20) >>) }

ParsePayloads(s) == IF s = "binance" THEN BinancePayloads ELSE BybitPayloads

\* ------------------------------------------------------------ state
VARIABLES
    now,                \* the wall clock, in seconds
    is_running,         \* RealTimeMonitor.is_running
    pc,                 \* per source: where its monitor_exchange task stands
    reconnect_count,    \* per source: monitor_exchange's local reconnect_count
    connections,        \* the keys of RealTimeMonitor.connections
    last_funding_data,  \* the filter map: key -> last accepted FundingUpdate
    update_queue,       \* RealTimeMonitor.update_queue, oldest first
    stats,              \* total_updates, alerts_sent, connections_lost
    pcConsumer,         \* where the process_updates task stands
    inflight,           \* the batch the update_callback is running on
    pcCleanup,          \* where the periodic_cleanup task stands
    attempts,           \* per source: connection attempts started since its
                        \* last successful connect (observation only)
    stopping,           \* the call of stop_monitoring: where it stands, the
                        \* size of self.connections when its loop began, the
                        \* sources it has visited, the sources whose present
                        \* websocket it has closed
    obs                 \* what the last step did (observation only)

vars == << now, is_running, pc, reconnect_count, connections,
           last_funding_data, update_queue, stats, pcConsumer, inflight,
           pcCleanup, attempts, stopping, obs >>

\* The instants the clock is observed at: they realise the gaps 0, 1, 59 and
\* 60 seconds (the gate) and 3600, 3601 and 3660 seconds (the retention).
TimePoints == {0, 59, 60, 3660}

\* retention of the sweep, in seconds: timedelta(hours=1)
RetentionSeconds == 3600
\* most updates process_updates takes from the queue in one pass
BatchSize == 10

\* The observation of a step: which operation ran, for which source, what
\* happened in it (tags) and, for a received message, the message and the
\* time of the call.
NoMessage == Message(FALSE, "scalar", FALSE, <<>>)
Obs(op, src, tags) ==
    [op |-> op, src |-> src, tags |-> tags, message |-> NoMessage, t |-> 0]
ObsMessage(src, tags, message, t) ==
    [op |-> "message", src |-> src, tags |-> tags, message |-> message, t |-> t]

\* stop_monitoring has not been called.
NotStopping == [pc |-> "NotCalled", size |-> 0, done |-> {}, closed |-> {}]

Init ==
    /\ now = 0
    /\ is_running = FALSE
    /\ pc = [s \in Sources |-> "NotStarted"]
    /\ reconnect_count = [s \in Sources |-> 0]
    /\ connections = {}
    /\ last_funding_data = <<>>
    /\ update_queue = <<>>
    /\ stats = [total_updates |-> 0, alerts_sent |-> 0, connections_lost |-> 0]
    /\ pcConsumer = "NotStarted"
    /\ inflight = <<>>
    /\ pcCleanup = "NotStarted"
    /\ attempts = [s \in Sources |-> 0]
    /\ stopping = NotStopping
    /\ obs = Obs("init", "", {})

\* start_monitoring up to its await of gather: the flag is set and the
\* supervisor, consumer and sweep tasks are created.
start_monitoring ==
    /\ ~is_running
    /\ pcConsumer = "NotStarted"
    /\ is_running' = TRUE
    /\ pc' = [s \in Sources |-> "Disconnected"]
    /\ pcConsumer' = "Idle"
    /\ pcCleanup' = "Idle"
    /\ obs' = Obs("start", "", {})
    /\ UNCHANGED << stopping, now, reconnect_count, connections, last_funding_data,
                    update_queue, stats, inflight, attempts >>

\* The clock moves on to a later instant.  (The observation of a received
\* message is kept while it is less than 60 seconds old, so that the next
\* message can be compared with it.)
Advance(t) ==
    /\ t > now
    /\ now' = t
    /\ obs' = IF obs.op = "message" /\ t - obs.t < 60
              THEN obs ELSE Obs("advance", "", {})
    /\ UNCHANGED << stopping, is_running, pc, reconnect_count, connections,
                    last_funding_data, update_queue, stats, pcConsumer,
                    inflight, pcCleanup, attempts >>

\* ------------------------------------------------------------ supervisor
\* A supervisor whose end takes every supervisor and connection with it.
Exit_all(s) ==
    /\ pc' = [x \in Sources |-> "Exited"]
    /\ connections' = {}

\* A supervisor that ends without removing its entry.
Exit_keeps_entry(s) ==
    /\ pc' = [pc EXCEPT ![s] = "Exited"]
    /\ UNCHANGED connections

\* monitor_exchange after the loop: the source leaves self.connections and
\* the task returns.
Exit(s) ==
    /\ pc' = [pc EXCEPT ![s] = "Exited"]
    /\ connections' = connections \ {s}

\* self.is_running and reconnect_count < max_reconnects
LoopCondition_inclusive(rc) == is_running /\ rc <= max_reconnects
LoopCondition(rc) == is_running /\ rc < max_reconnects

\* Lines 147-149 with reconnect_count = rc: sleep before the next attempt,
\* or fall through the while test (no await in between) and leave.
AfterAttempt(s, rc) ==
    IF LoopCondition(rc)
    THEN /\ pc' = [pc EXCEPT ![s] = "Reconnecting"]
         /\ UNCHANGED connections
    ELSE Exit(s)

\* The while test, at the task's first run and after each reconnect sleep.
LoopTest(s) ==
    /\ pc[s] \in {"Disconnected", "Reconnecting"}
    /\ IF LoopCondition(reconnect_count[s])
       THEN /\ pc' = [pc EXCEPT ![s] = "Connecting"]
            /\ attempts' = [attempts EXCEPT ![s] = @ + 1]
            /\ UNCHANGED connections
       ELSE /\ Exit(s)
            /\ UNCHANGED attempts
    /\ obs' = Obs("loop", s, {})
    /\ UNCHANGED << stopping, now, is_running, reconnect_count, last_funding_data,
                    update_queue, stats, pcConsumer, inflight, pcCleanup >>

\* websockets.connect raises (refused, timeout, bad handshake): the generic
\* except branch.
ConnectFails(s) ==
    /\ pc[s] = "Connecting"
    /\ reconnect_count' = [reconnect_count EXCEPT ![s] = @ + 1]
    /\ AfterAttempt(s, reconnect_count[s] + 1)
    /\ obs' = Obs("connect_fails", s, {})
    /\ UNCHANGED << stopping, now, is_running, last_funding_data, update_queue, stats,
                    pcConsumer, inflight, pcCleanup, attempts >>

\* websockets.connect returns: the connection is registered and the
\* subscription is awaited.
ConnectSucceeds(s) ==
    /\ pc[s] = "Connecting"
    /\ connections' = connections \cup {s}
    /\ pc' = [pc EXCEPT ![s] = "Subscribing"]
    /\ attempts' = [attempts EXCEPT ![s] = 0]
    /\ stopping' = [stopping EXCEPT !.closed = @ \ {s}]
    /\ obs' = Obs("connect_succeeds", s, {})
    /\ UNCHANGED << now, is_running, reconnect_count, last_funding_data,
                    update_queue, stats, pcConsumer, inflight, pcCleanup >>

\* A supervisor that enters its receive loop with the counter as it is.
Subscribed_no_reset(s) ==
    /\ pc[s] = "Subscribing"
    /\ pc' = [pc EXCEPT ![s] = "Streaming"]
    /\ obs' = Obs("subscribed", s, {})
    /\ UNCHANGED << stopping, now, is_running, reconnect_count, connections,
                    last_funding_data, update_queue, stats, pcConsumer,
                    inflight, pcCleanup, attempts >>

\* subscribe_funding_rates returns after websocket.send has sent the
\* subscription; the counter is reset and the receive loop is entered.
Subscribed(s) ==
    /\ pc[s] = "Subscribing"
    /\ reconnect_count' = [reconnect_count EXCEPT ![s] = 0]
    /\ pc' = [pc EXCEPT ![s] = "Streaming"]
    /\ obs' = Obs("subscribed", s, {})
    /\ UNCHANGED << stopping, now, is_running, connections, last_funding_data,
                    update_queue, stats, pcConsumer, inflight, pcCleanup,
                    attempts >>

\* websocket.send raises inside subscribe_funding_rates: its except branch
\* logs the error and the coroutine returns normally; monitor_exchange goes
\* on as after a sent subscription.
SubscribeFails(s) ==
    /\ pc[s] = "Subscribing"
    /\ reconnect_count' = [reconnect_count EXCEPT ![s] = 0]
    /\ pc' = [pc EXCEPT ![s] = "Streaming"]
    /\ obs' = Obs("subscribe_fails", s, {})
    /\ UNCHANGED << stopping, now, is_running, connections, last_funding_data,
                    update_queue, stats, pcConsumer, inflight, pcCleanup,
                    attempts >>

\* The receive loop raises ConnectionClosed (abnormal closure).
ConnectionClosedError(s) ==
    /\ pc[s] = "Streaming"
    /\ reconnect_count' = [reconnect_count EXCEPT ![s] = @ + 1]
    /\ stats' = [stats EXCEPT !.connections_lost = @ + 1]
    /\ AfterAttempt(s, reconnect_count[s] + 1)
    /\ obs' = Obs("closed_error", s, {})
    /\ UNCHANGED << stopping, now, is_running, last_funding_data, update_queue,
                    pcConsumer, inflight, pcCleanup, attempts >>

\* The receive loop ends without an exception (normal closure).
ConnectionClosedOK(s) ==
    /\ pc[s] = "Streaming"
    /\ AfterAttempt(s, reconnect_count[s])
    /\ obs' = Obs("closed_ok", s, {})
    /\ UNCHANGED << stopping, now, is_running, reconnect_count, last_funding_data,
                    update_queue, stats, pcConsumer, inflight, pcCleanup,
                    attempts >>

\* |rate - priorRate| / |priorRate| * 100, and 0 when priorRate is 0.
ChangeMagnitude(rate, priorRate) ==
    IF FEqInt(priorRate, 0) THEN QZero
    ELSE FDivTimes100(FAbs(FSub(rate, priorRate)), FAbs(priorRate))

\* What a decision of the filter was, for the observation variable.
EntryTags(e) ==
    IF FLtInt(e.update.apr, min_apr_threshold)
    THEN {"floor"} \cup (IF e.had THEN {} ELSE {"floor_first"})
    ELSE IF ~e.had THEN {"first"}
    ELSE IF e.update.timestamp - e.prior.timestamp < 60
    THEN {"gate"}
         \cup (IF QGeInt(ChangeMagnitude(e.update.funding_rate,
                                         e.prior.funding_rate), 10)
               THEN {"gate_big"} ELSE {})
    ELSE IF e.accept THEN {"changed"}
    ELSE {"small"}

LogTags(log) ==
    UNION { EntryTags(log[i]) : i \in 1..Len(log) }
    \cup (IF \E i \in 1..Len(log) : log[i].accept THEN {"accepted"} ELSE {})

\* An item that cannot become a valid event: not an object, no usable symbol,
\* no rate field, a rate that is no number or is out of range.
ItemMalformed(item) ==
    \/ ~item.obj
    \/ item.rk \in {"bad", "missing"}
    \/ Len(SymbolOf[ItemSymbol(item)]) < 2
    \/ (item.rk = "num" /\ AbsInt(item.r) * 100 > 50 * Unit)

\* A payload its source's parser cannot interpret: no JSON, not the source's
\* envelope, an item that is no object, a rate that is no number.
Uninterpretable(s, message) ==
    \/ ~message.valid
    \/ message # Envelope(s, message.items)
    \/ \E i \in 1..Len(message.items) :
          ~message.items[i].obj \/ message.items[i].rk = "bad"

\* What kind of message was handled, for the observation variable.
MessageTags(s, message, timestamp) ==
    (IF message.valid /\ message = Envelope(s, message.items)
        /\ \E i \in 1..Len(message.items) : ItemMalformed(message.items[i])
     THEN {"malformed_item"} ELSE {})
    \cup (IF Uninterpretable(s, message) THEN {"uninterpretable"} ELSE {})
    \cup (IF message.valid /\ ParserResult(s, message, timestamp) # <<>>
          THEN {"parsed_some"} ELSE {})
    \cup (IF obs.op = "message" /\ obs.src = s /\ obs.message = message
             /\ timestamp - obs.t < 60
          THEN {"repeat"} ELSE {})
    \cup (IF obs.op = "message" /\ obs.src = s
             /\ "uninterpretable" \in obs.tags
          THEN {"after_failure"} ELSE {})

\* A receive loop that a payload without meaning throws out of its connection.
Receive_crashing(s, message) ==
    /\ pc[s] = "Streaming"
    /\ IF Uninterpretable(s, message)
       THEN /\ reconnect_count' = [reconnect_count EXCEPT ![s] = @ + 1]
            /\ pc' = [pc EXCEPT ![s] = "Reconnecting"]
            /\ obs' = ObsMessage(s, MessageTags(s, message, now), message, now)
            /\ UNCHANGED << last_funding_data, update_queue, stats >>
       ELSE \E res \in { process_websocket_message(s, message, now,
                           last_funding_data, update_queue,
                           stats.total_updates) } :
               /\ Len(res.queue) <= MaxQueue
               /\ last_funding_data' = res.lfd
               /\ update_queue' = res.queue
               /\ stats' = [stats EXCEPT !.total_updates = res.total]
               /\ obs' = ObsMessage(s, LogTags(res.log)
                                         \cup MessageTags(s, message, now),
                                     message, now)
               /\ UNCHANGED << pc, reconnect_count >>
    /\ UNCHANGED << stopping, now, is_running, connections, pcConsumer, inflight,
                    pcCleanup, attempts >>

\* A receive loop whose enqueue waits for the consumer when the queue is not
\* empty: the supervisor stays in the put and nothing is queued.
Receive_waits(s, message) ==
    /\ pc[s] = "Streaming"
    /\ \E res \in { process_websocket_message(s, message, now,
                        last_funding_data, update_queue, stats.total_updates) } :
          /\ Len(res.queue) <= MaxQueue
          /\ last_funding_data' = res.lfd
          /\ stats' = [stats EXCEPT !.total_updates = res.total]
          /\ obs' = ObsMessage(s, LogTags(res.log)
                                    \cup MessageTags(s, message, now),
                                message, now)
          /\ IF update_queue # <<>> /\ res.queue # update_queue
             THEN /\ pc' = [pc EXCEPT ![s] = "Enqueueing"]
                  /\ UNCHANGED update_queue
             ELSE /\ update_queue' = res.queue
                  /\ UNCHANGED pc
    /\ UNCHANGED << stopping, now, is_running, reconnect_count, connections,
                    pcConsumer, inflight, pcCleanup, attempts >>

\* One pass of the receive loop: a message arrives and
\* process_websocket_message handles it.
Receive(s, message) ==
    /\ pc[s] = "Streaming"
    /\ \E res \in { process_websocket_message(s, message, now,
                        last_funding_data, update_queue, stats.total_updates) } :
          /\ Len(res.queue) <= MaxQueue
          /\ last_funding_data' = res.lfd
          /\ update_queue' = res.queue
          /\ stats' = [stats EXCEPT !.total_updates = res.total]
          /\ obs' = ObsMessage(s, LogTags(res.log)
                                    \cup MessageTags(s, message, now),
                                message, now)
    /\ UNCHANGED << stopping, now, is_running, pc, reconnect_count, connections,
                    pcConsumer, inflight, pcCleanup, attempts >>

\* ------------------------------------------------------------ consumer
\* A test that takes every update for an alert.
IsHighApr_all(update) == TRUE

\* update.apr >= bot_config.alert_apr_threshold
IsHighApr(update) == FGeInt(update.apr, alert_apr_threshold)

\* A batch that takes all the queue holds.
Min_whole_queue(a, b) == b

Min(a, b) == IF a < b THEN a ELSE b

\* The sequence s from its last element to its first.
Reversed(s) == [i \in 1..Len(s) |-> s[Len(s) + 1 - i]]

\* A pass that hands its batch on newest first.
ConsumerStep_newest_first ==
    /\ pcConsumer = "Idle"
    /\ is_running
    /\ LET n == Min(BatchSize, Len(update_queue))
           high_apr_updates == SelectSeq(SubSeq(update_queue, 1, n), IsHighApr)
       IN /\ update_queue' = SubSeq(update_queue, n + 1, Len(update_queue))
          /\ IF high_apr_updates # <<>>
             THEN /\ pcConsumer' = "Callback"
                  /\ inflight' = Reversed(high_apr_updates)
             ELSE /\ pcConsumer' = "Idle"
                  /\ inflight' = <<>>
    /\ obs' = Obs("consumer", "", {})
    /\ UNCHANGED << stopping, now, is_running, pc, reconnect_count,
                    connections, last_funding_data, stats, pcCleanup,
                    attempts >>

\* A pass that starts while the callback is still running on the last batch.
ConsumerStep_reentrant ==
    /\ pcConsumer \in {"Idle", "Callback"}
    /\ is_running
    /\ LET n == Min(BatchSize, Len(update_queue))
           high_apr_updates == SelectSeq(SubSeq(update_queue, 1, n), IsHighApr)
       IN /\ update_queue' = SubSeq(update_queue, n + 1, Len(update_queue))
          /\ IF high_apr_updates # <<>>
             THEN /\ pcConsumer' = "Callback"
                  /\ inflight' = high_apr_updates
             ELSE /\ pcConsumer' = pcConsumer
                  /\ inflight' = inflight
    /\ obs' = Obs("consumer", "", {})
    /\ UNCHANGED << stopping, now, is_running, pc, reconnect_count,
                    connections, last_funding_data, stats, pcCleanup,
                    attempts >>

\* A pass that hands only the first alert-worthy event of its batch on.
ConsumerStep_first_alert_only ==
    /\ pcConsumer = "Idle"
    /\ is_running
    /\ LET n == Min(BatchSize, Len(update_queue))
           high_apr_updates == SelectSeq(SubSeq(update_queue, 1, n), IsHighApr)
       IN /\ update_queue' = SubSeq(update_queue, n + 1, Len(update_queue))
          /\ IF high_apr_updates # <<>>
             THEN /\ pcConsumer' = "Callback"
                  /\ inflight' = << high_apr_updates[1] >>
             ELSE /\ pcConsumer' = "Idle"
                  /\ inflight' = <<>>
    /\ obs' = Obs("consumer", "",
                  IF obs.op = "callback_raises" THEN {"after_raise"} ELSE {})
    /\ UNCHANGED << stopping, now, is_running, pc, reconnect_count, connections,
                    last_funding_data, stats, pcCleanup, attempts >>

\* One pass of the loop of process_updates, up to its next await: the while
\* test, the batch taken from the queue, process_funding_updates up to the
\* await of the callback (or, with nothing to alert on, the sleep).
ConsumerStep ==
    /\ pcConsumer = "Idle"
    /\ IF ~is_running
       THEN /\ pcConsumer' = "Exited"
            /\ UNCHANGED << update_queue, inflight >>
       ELSE LET n == Min(BatchSize, Len(update_queue))
                updates_batch == SubSeq(update_queue, 1, n)
                high_apr_updates == SelectSeq(updates_batch, IsHighApr)
            IN /\ update_queue' = SubSeq(update_queue, n + 1, Len(update_queue))
               /\ IF high_apr_updates # <<>>
                  THEN /\ pcConsumer' = "Callback"
                       /\ inflight' = high_apr_updates
                  ELSE /\ pcConsumer' = "Idle"
                       /\ inflight' = <<>>
    /\ obs' = Obs("consumer", "",
                  IF obs.op = "callback_raises" THEN {"after_raise"} ELSE {})
    /\ UNCHANGED << stopping, now, is_running, pc, reconnect_count, connections,
                    last_funding_data, stats, pcCleanup, attempts >>

\* A send_alerts that counts one alert for a run of the callback.
CallbackReturns_counts_runs ==
    /\ pcConsumer = "Callback"
    /\ stats' = [stats EXCEPT !.alerts_sent = @ + 1]
    /\ inflight' = <<>>
    /\ pcConsumer' = "Idle"
    /\ obs' = Obs("callback_returns", "", {})
    /\ UNCHANGED << stopping, now, is_running, pc, reconnect_count, connections,
                    last_funding_data, update_queue, pcCleanup, attempts >>

\* send_alerts: the update_callback returns.
CallbackReturns ==
    /\ pcConsumer = "Callback"
    /\ stats' = [stats EXCEPT !.alerts_sent = @ + Len(inflight)]
    /\ inflight' = <<>>
    /\ pcConsumer' = "Idle"
    /\ obs' = Obs("callback_returns", "", {})
    /\ UNCHANGED << stopping, now, is_running, pc, reconnect_count, connections,
                    last_funding_data, update_queue, pcCleanup, attempts >>

\* A consumer task that an exception of the callback ends.
CallbackRaises_stops ==
    /\ pcConsumer = "Callback"
    /\ inflight' = <<>>
    /\ pcConsumer' = "Exited"
    /\ obs' = Obs("callback_raises", "", {})
    /\ UNCHANGED << stopping, now, is_running, pc, reconnect_count, connections,
                    last_funding_data, update_queue, stats, pcCleanup,
                    attempts >>

\* send_alerts: the update_callback raises; the exception is logged.
CallbackRaises ==
    /\ pcConsumer = "Callback"
    /\ inflight' = <<>>
    /\ pcConsumer' = "Idle"
    /\ obs' = Obs("callback_raises", "", {})
    /\ UNCHANGED << stopping, now, is_running, pc, reconnect_count, connections,
                    last_funding_data, update_queue, stats, pcCleanup,
                    attempts >>

\* ------------------------------------------------------------ sweep
\* The keys periodic_cleanup collects in keys_to_remove at time t.
KeysToRemove_inclusive(lfd, t) ==
    { k \in DOMAIN lfd : lfd[k].timestamp <= t - RetentionSeconds }
KeysToRemove(lfd, t) ==
    { k \in DOMAIN lfd : lfd[k].timestamp < t - RetentionSeconds }

\* A sweep that collects the keys and deletes none.
Sweep_deletes_nothing(lfd, t) == lfd

\* The map after "for key in keys_to_remove: del self.last_funding_data[key]".
Sweep(lfd, t) ==
    [ k \in (DOMAIN lfd) \ KeysToRemove(lfd, t) |-> lfd[k] ]

\* What a sweep did, for the observation variable.
SweepTags(lfd, t) ==
    (IF KeysToRemove(lfd, t) # {} THEN {"evicted"} ELSE {})
    \cup (IF \E k \in DOMAIN lfd : t - lfd[k].timestamp = RetentionSeconds
          THEN {"at_limit"} ELSE {})

\* One pass of the loop of periodic_cleanup, up to its sleep.
CleanupStep ==
    /\ pcCleanup = "Idle"
    /\ IF ~is_running
       THEN /\ pcCleanup' = "Exited"
            /\ UNCHANGED last_funding_data
            /\ obs' = Obs("cleanup_exit", "", {})
       ELSE /\ last_funding_data' = Sweep(last_funding_data, now)
            /\ pcCleanup' = "Idle"
            /\ obs' = Obs("cleanup", "", SweepTags(last_funding_data, now))
    /\ UNCHANGED << stopping, now, is_running, pc, reconnect_count, connections,
                    update_queue, stats, pcConsumer, inflight, attempts >>

\* ------------------------------------------------------------ stop
\* stop_monitoring reaches "await websocket.close()" for the entry of s: s is
\* visited and the websocket registered for s is closed.
Closing(s, size) ==
    [ pc |-> "Closing", size |-> size,
      done |-> stopping.done \cup {s}, closed |-> stopping.closed \cup {s} ]

\* stop_monitoring is called while the monitor runs, up to its first await:
\* the flag is cleared and the loop over self.connections.items() begins
\* (with no connection it ends at once, the dictionary is cleared and the
\* executor, which has no work, is shut down).  The loop goes in the order of
\* insertion, which the model does not record: every order is taken.
stop_monitoring ==
    /\ is_running
    /\ stopping.pc = "NotCalled"
    /\ is_running' = FALSE
    /\ IF connections = {}
       THEN stopping' = [stopping EXCEPT !.pc = "Done"]
       ELSE \E s \in connections :
               stopping' = Closing(s, Cardinality(connections))
    /\ obs' = Obs("stop", "", {})
    /\ UNCHANGED << now, pc, reconnect_count, connections, last_funding_data,
                    update_queue, stats, pcConsumer, inflight, pcCleanup,
                    attempts >>

\* websocket.close() returns and the loop of stop_monitoring asks for its
\* next entry: a dictionary whose size has changed since the loop began
\* raises RuntimeError out of stop_monitoring (the for statement is outside
\* the try); otherwise the next entry is closed, or, with none left, the
\* dictionary is cleared and stop_monitoring returns.
StopContinues ==
    /\ stopping.pc = "Closing"
    /\ IF Cardinality(connections) # stopping.size
       THEN /\ stopping' = [stopping EXCEPT !.pc = "Raised"]
            /\ obs' = Obs("stop_raises", "", {})
            /\ UNCHANGED connections
       ELSE IF connections \ stopping.done # {}
       THEN /\ \E s \in connections \ stopping.done :
                  stopping' = Closing(s, stopping.size)
            /\ obs' = Obs("stop_closes", "", {})
            /\ UNCHANGED connections
       ELSE /\ stopping' = [stopping EXCEPT !.pc = "Done"]
            /\ obs' = Obs("stop_returns", "", {})
            /\ connections' = {}
    /\ UNCHANGED << now, is_running, pc, reconnect_count, last_funding_data,
                    update_queue, stats, pcConsumer, inflight, pcCleanup,
                    attempts >>

\* The receive loop of s ends because stop_monitoring has closed its
\* websocket.
ClosedByStop(s) ==
    /\ s \in stopping.closed
    /\ ConnectionClosedOK(s)

\* Every task that start_monitoring gathers has returned.
AllTasksDone_supervisors ==
    \A s \in Sources : pc[s] = "Exited"
AllTasksDone ==
    /\ \A s \in Sources : pc[s] = "Exited"
    /\ pcConsumer = "Exited"
    /\ pcCleanup = "Exited"

\* gather returns in start_monitoring and its finally clause calls
\* stop_monitoring: every supervisor has removed its entry, so the loop over
\* the connections has nothing to close.
GatherReturns ==
    /\ AllTasksDone
    /\ stopping.pc \notin {"Closing", "Finished"}
    /\ is_running' = FALSE
    /\ connections' = {}
    /\ stopping' = [stopping EXCEPT !.pc = "Finished"]
    /\ obs' = Obs("finally_stop", "", {})
    /\ UNCHANGED << now, pc, reconnect_count, last_funding_data,
                    update_queue, stats, pcConsumer, inflight, pcCleanup,
                    attempts >>

\* ------------------------------------------------------------ specification
\* The filter under well-formed traffic: both supervisors connect and stream,
\* messages arrive, the clock advances and the sweep runs.  The queue is not
\* drained here, so it holds every event accepted so far, in order.
Next ==
    \/ start_monitoring
    \/ \E t \in TimePoints : Advance(t)
    \/ \E s \in Sources : LoopTest(s)
    \/ \E s \in Sources : ConnectSucceeds(s)
    \/ \E s \in Sources : Subscribed(s)
    \/ \E s \in Sources : \E message \in FilterMessages(s) : Receive(s, message)
    \/ CleanupStep

Spec == Init /\ [][Next]_vars

\* ------------------------------------------------------------ properties
\* The sources whose supervisor is in its receive loop: a message of
\* FilterMessages(s) can arrive from each of them in the current state.
Streaming == { s \in Sources : pc[s] = "Streaming" }

\* process_websocket_message on an arrival in the current state.
CallResult(s, message) ==
    process_websocket_message(s, message, now, last_funding_data,
                              update_queue, stats.total_updates)

\* Seconds between a reading and the entry stored for its key.
SinceLast(e) == e.update.timestamp - e.prior.timestamp

\* C2: a reading that arrives less than 60 seconds after the last accepted
\* reading for its key is rejected, however large its change is; hence two
\* accepted events of one key are never less than 60 seconds apart.
C2_TimeGate ==
    /\ \A s \in Streaming : \A message \in FilterMessages(s) :
       \A res \in { CallResult(s, message) } : \A i \in 1..Len(res.log) :
          LET e == res.log[i]
          IN (e.had /\ SinceLast(e) < 60)
             => ~e.accept /\ e.lfd_after = e.lfd_before
    /\ \A i, j \in 1..Len(update_queue) :
          (i < j /\ Key(update_queue[i]) = Key(update_queue[j]))
          => update_queue[j].timestamp - update_queue[i].timestamp >= 60

\* A message was handled in which the gate rejected a reading whose change
\* was 10% or more, and nothing of the message was accepted.
C2_Witness ==
    /\ obs.op = "message"
    /\ "gate_big" \in obs.tags
    /\ "accepted" \notin obs.tags

\* The rule of C3 for one decision of the filter.
ChangeRule(e) ==
    LET magnitude == ChangeMagnitude(e.update.funding_rate,
                                     e.prior.funding_rate)
    IN /\ e.accept <=> QGeInt(magnitude, 10)
       /\ e.accept => /\ QEq(e.out.change_percent, magnitude)
                      /\ e.lfd_after[Key(e.update)] = e.out

\* C3: a reading at or above the APR floor that arrives 60 seconds or more
\* after the last accepted reading for its key is accepted exactly when its
\* change magnitude is 10 or more; when accepted, its change_percent is that
\* magnitude and it replaces the stored entry.
C3_ChangeRule ==
    \A s \in Streaming : \A message \in FilterMessages(s) :
    \A res \in { CallResult(s, message) } : \A i \in 1..Len(res.log) :
       LET e == res.log[i]
       IN (e.had /\ ~FLtInt(e.update.apr, min_apr_threshold)
             /\ SinceLast(e) >= 60)
          => ChangeRule(e)

\* The same rule for readings and stored entries whose rates are numbers.
C3_ChangeRuleOfNumbers ==
    \A s \in Streaming : \A message \in FilterMessages(s) :
    \A res \in { CallResult(s, message) } : \A i \in 1..Len(res.log) :
       LET e == res.log[i]
       IN (e.had /\ ~FLtInt(e.update.apr, min_apr_threshold)
             /\ SinceLast(e) >= 60
             /\ ~e.update.funding_rate.nan /\ ~e.prior.funding_rate.nan)
          => ChangeRule(e)

\* C4: a reading whose key has no entry and whose APR is at or above the
\* floor is accepted, is recorded under its key and has change_percent 0.
C4_FirstSighting ==
    \A s \in Streaming : \A message \in FilterMessages(s) :
    \A res \in { CallResult(s, message) } : \A i \in 1..Len(res.log) :
       LET e == res.log[i]
       IN (~e.had /\ FGeInt(e.update.apr, min_apr_threshold))
          => /\ e.accept
             /\ e.out = e.update
             /\ QEq(e.out.change_percent, QZero)
             /\ Key(e.update) \in DOMAIN e.lfd_after
             /\ e.lfd_after[Key(e.update)] = e.out

\* A message was handled with a first sighting at or above the floor.
C4_Witness ==
    /\ obs.op = "message"
    /\ "first" \in obs.tags
    /\ "accepted" \in obs.tags

\* C5: a reading whose APR is below min_apr_threshold is rejected, first
\* sighting or not, and leaves the filter map as it was; a message with
\* such readings only leaves the queue as it was; no entry of the filter map
\* and no queued event has an APR below the floor.
C5_AprFloor ==
    /\ \A s \in Streaming : \A message \in FilterMessages(s) :
       \A res \in { CallResult(s, message) } :
          /\ \A i \in 1..Len(res.log) :
                FLtInt(res.log[i].update.apr, min_apr_threshold)
                => /\ ~res.log[i].accept
                   /\ res.log[i].lfd_after = res.log[i].lfd_before
          /\ (\A i \in 1..Len(res.log) :
                 FLtInt(res.log[i].update.apr, min_apr_threshold))
             => /\ res.queue = update_queue
                /\ res.lfd = last_funding_data
    /\ \A k \in DOMAIN last_funding_data :
          ~FLtInt(last_funding_data[k].apr, min_apr_threshold)
    /\ \A i \in 1..Len(update_queue) :
          ~FLtInt(update_queue[i].apr, min_apr_threshold)

\* A message was handled whose reading was below the floor on the first
\* sighting of its key.
C5_Witness ==
    /\ obs.op = "message"
    /\ "floor_first" \in obs.tags
    /\ "accepted" \notin obs.tags

\* The number of readings of a key that a call accepted.
Accepts(log, key) ==
    Cardinality({ i \in 1..Len(log) :
                    log[i].accept /\ Key(log[i].update) = key })

\* The keys of the readings a call passed to the filter.
LogKeys(log) == { Key(log[i].update) : i \in 1..Len(log) }

\* The same message handled again at time t2, after the call on the arrival
\* that gave first.
SecondFeed(s, message, first, t2) ==
    process_websocket_message(s, message, t2, first.lfd, first.queue,
                              first.total)

\* The instants within 60 seconds from now.
RepeatTimes == { t \in TimePoints : now <= t /\ t - now < 60 }

\* C6 as stated: the same payload fed twice within 60 seconds from the same
\* source yields exactly one accepted event per key, and the second feed
\* changes neither the queue nor the filter map nor total_updates.
C6_Original ==
    \A s \in Streaming : \A message \in FilterMessages(s) :
    \A first \in { CallResult(s, message) } : \A t2 \in RepeatTimes :
    \A second \in { SecondFeed(s, message, first, t2) } :
       /\ \A k \in LogKeys(first.log) :
             Accepts(first.log, k) + Accepts(second.log, k) = 1
       /\ second.queue = first.queue
       /\ second.lfd = first.lfd
       /\ second.total = first.total

\* C6: the same payload fed twice within 60 seconds from the same source
\* yields at most one accepted event per key; and when the first feed
\* accepted a reading of every key whose readings are at or above the APR
\* floor, the second feed changes neither the queue nor the filter map nor
\* total_updates.
C6_Amended ==
    \A s \in Streaming : \A message \in FilterMessages(s) :
    \A first \in { CallResult(s, message) } : \A t2 \in RepeatTimes :
    \A second \in { SecondFeed(s, message, first, t2) } :
       /\ \A k \in LogKeys(first.log) :
             Accepts(first.log, k) + Accepts(second.log, k) <= 1
       /\ (\A i \in 1..Len(first.log) :
              \/ FLtInt(first.log[i].update.apr, min_apr_threshold)
              \/ Accepts(first.log, Key(first.log[i].update)) = 1)
          => /\ second.queue = first.queue
             /\ second.lfd = first.lfd
             /\ second.total = first.total

\* A source's message was handled a second time within 60 seconds and the
\* gate rejected its readings.
C6_Witness ==
    /\ obs.op = "message"
    /\ "repeat" \in obs.tags
    /\ "gate" \in obs.tags
    /\ "accepted" \notin obs.tags

\* C7: a sweep removes exactly the entries whose timestamp is more than one
\* hour before the time of the sweep; an entry one hour old or younger stays
\* as it is.
C7_Sweep ==
    LET swept == Sweep(last_funding_data, now)
    IN /\ DOMAIN swept =
             { k \in DOMAIN last_funding_data :
                 now - last_funding_data[k].timestamp <= RetentionSeconds }
       /\ \A k \in DOMAIN swept : swept[k] = last_funding_data[k]

\* A sweep ran that removed an entry and kept one that was exactly one hour
\* old.
C7_Witness ==
    /\ obs.op = "cleanup"
    /\ "evicted" \in obs.tags
    /\ "at_limit" \in obs.tags

\* C8: every entry of the filter map and every queued event has a
\* funding_rate f with |f| <= 50.
C8_RateRange ==
    /\ \A k \in DOMAIN last_funding_data :
          FLeInt(FAbs(last_funding_data[k].funding_rate), 50)
    /\ \A i \in 1..Len(update_queue) :
          FLeInt(FAbs(update_queue[i].funding_rate), 50)

\* ------------------------------------------------ specification: parsing
\* The parsers under traffic they cannot read: the supervisors connect and
\* stream, and payloads of ParsePayloads arrive.
NextParse ==
    \/ start_monitoring
    \/ \E s \in Sources : LoopTest(s)
    \/ \E s \in Sources : ConnectSucceeds(s)
    \/ \E s \in Sources : Subscribed(s)
    \/ \E s \in Sources : \E message \in ParsePayloads(s) : Receive(s, message)

SpecParse == Init /\ [][NextParse]_vars

\* C9: for a payload its source's parser cannot interpret (invalid JSON,
\* wrong envelope, an item that is no object, a rate that is no number) the
\* parser returns the empty sequence.
C9_EmptyOnUninterpretable ==
    (obs.op = "message" /\ "uninterpretable" \in obs.tags)
    => /\ "parsed_some" \notin obs.tags
       /\ "accepted" \notin obs.tags

\* C10: a payload with an item that cannot become a valid event (rate out of
\* range, invalid symbol, a missing or non-numeric field) produces no event,
\* wherever the item sits: the parser's result is empty, nothing is passed
\* to the filter and nothing is enqueued.
C10_NoEventFromMalformedPayload ==
    (obs.op = "message" /\ "malformed_item" \in obs.tags)
    => /\ ParserResult(obs.src, obs.message, obs.t) = <<>>
       /\ "accepted" \notin obs.tags

\* --------------------------------------------- specification: supervisors
\* The supervisors under failing connections: attempts fail or succeed,
\* connections close with or without an error, a ticker arrives.
SupMessages(s) == { Envelope(s, << Item(TRUE, TRUE, nXYZ, "num", 20) >>) }

NextSup ==
    \/ start_monitoring
    \/ \E s \in Sources : LoopTest(s)
    \/ \E s \in Sources : ConnectFails(s)
    \/ \E s \in Sources : ConnectSucceeds(s)
    \/ \E s \in Sources : Subscribed(s)
    \/ \E s \in Sources : \E message \in SupMessages(s) : Receive(s, message)
    \/ \E s \in Sources :
          stats.connections_lost < MaxLost /\ ConnectionClosedError(s)
    \/ \E s \in Sources : ConnectionClosedOK(s)

SpecSup == Init /\ [][NextSup]_vars

\* The supervisor of s has left its loop with its attempts used up.
Failed(s) ==
    /\ pc[s] = "Exited"
    /\ reconnect_count[s] >= max_reconnects
    /\ s \notin connections

\* C1: a source whose connection attempts have failed max_reconnects (10)
\* times in succession, with no successful connection in between, is Failed;
\* no source ever starts an 11th attempt in succession; and a supervisor
\* that has left its loop stays out of it.
C1_RetryLimit ==
    /\ [](\A s \in Sources :
            /\ attempts[s] <= max_reconnects
            /\ (attempts[s] = max_reconnects /\ pc[s] # "Connecting")
               => Failed(s))
    /\ [][\A s \in Sources : pc[s] = "Exited" => pc'[s] = "Exited"]_vars

\* A source is Failed after max_reconnects failed attempts in succession.
C1_Witness ==
    \E s \in Sources :
       /\ attempts[s] = max_reconnects
       /\ Failed(s)
       /\ obs.op = "connect_fails"
       /\ obs.src = s

\* The ticker of XYZ at 0.0020 in the envelope of source s.
GoodTicker(s) == Envelope(s, << Item(TRUE, TRUE, nXYZ, "num", 20) >>)

\* ------------------------------------------------ specification: events
\* What becomes an event, and with which fields.  Binance sends single
\* tickers of XYZ at 0.0020, at 0.0005 and at 2, of bitcoin as BTCUSDT,
\* btcusdt and BTCUSDC, of the one-letter symbol X, of XYZ at zero, without
\* a rate and with a rate that is no number, an item that is no object, the
\* pairs of a ticker without a usable rate and XYZ at 0.0020, text that is no
\* JSON and the envelope of bybit; bybit sends XYZ at 0.0020 and text that
\* is no JSON.
EventPayloads(s) ==
    IF s = "binance"
    THEN { Envelope(s, <<item>>) :
              item \in ScaleItems \cup OtherNameItems \cup SkippedItems
                       \cup { Item(TRUE, TRUE, nXYZ, "num", 20),
                              Item(TRUE, TRUE, nX, "num", 20),
                              Item(TRUE, TRUE, nXYZ, "bad", 0),
                              Item(FALSE, FALSE, <<>>, "missing", 0) } }
         \cup { Envelope(s, << Item(TRUE, TRUE, nXYZ, "num", 0),
                               Item(TRUE, TRUE, nXYZ, "num", 20) >>),
                Envelope(s, << Item(TRUE, TRUE, nQQ, "missing", 0),
                               Item(TRUE, TRUE, nXYZ, "num", 20) >>),
                NoJSON, GoodTicker("bybit") }
    ELSE { GoodTicker(s), NoJSON }

NextEvents ==
    \/ start_monitoring
    \/ \E s \in Sources : LoopTest(s)
    \/ \E s \in Sources : ConnectSucceeds(s)
    \/ \E s \in Sources : Subscribed(s)
    \/ \E s \in Sources : \E message \in EventPayloads(s) : Receive(s, message)

SpecEvents == Init /\ [][NextEvents]_vars

\* C11: a payload that fails to parse does not take its supervisor out of
\* the receive loop: the step that handles it leaves every supervisor's
\* position, the connections, the attempt counters and the lost-connection
\* count as they were, the supervisor is Streaming on its connection
\* afterwards, and the next payload is handled as usual (a first sighting
\* of a good ticker is accepted and counted).
C11_SupervisorSurvives ==
    /\ []((obs.op = "message" /\ "uninterpretable" \in obs.tags)
          => /\ pc[obs.src] = "Streaming"
             /\ obs.src \in connections
             /\ \A res \in { CallResult(obs.src, GoodTicker(obs.src)) } :
                   (\A i \in 1..Len(res.log) :
                       Key(res.log[i].update) \notin DOMAIN last_funding_data)
                   => /\ res.total = stats.total_updates + 1
                      /\ Len(res.queue) = Len(update_queue) + 1)
    /\ [][(obs'.op = "message" /\ "uninterpretable" \in obs'.tags)
          => /\ pc' = pc
             /\ connections' = connections
             /\ reconnect_count' = reconnect_count
             /\ stats'.connections_lost = stats.connections_lost]_vars

\* A payload was accepted from a source right after a payload of that
\* source had failed to parse.
C11_Witness ==
    /\ obs.op = "message"
    /\ "after_failure" \in obs.tags
    /\ "uninterpretable" \notin obs.tags
    /\ "accepted" \in obs.tags
    /\ pc[obs.src] = "Streaming"

\* The message handled by the last step was one ticker with a usable symbol
\* and a numeric, non-zero rate.
OneGoodTicker ==
    /\ obs.op = "message"
    /\ obs.message = Envelope(obs.src, obs.message.items)
    /\ Len(obs.message.items) = 1
    /\ obs.message.items[1].obj
    /\ obs.message.items[1].rk = "num"
    /\ obs.message.items[1].r # 0
    /\ Len(SymbolOf[ItemSymbol(obs.message.items[1])]) >= 2
    /\ SymbolOf[ItemSymbol(obs.message.items[1])] \notin TOP_50_COINS

\* The rate in percent of the wire value r / Unit under the magnitude rule:
\* times 100 when its magnitude is under 1, unchanged otherwise.
RateByMagnitude(r) == IF AbsInt(r) < Unit THEN Fin(r * 100) ELSE Fin(r)

\* C12: a parser multiplies a wire rate by 100 only when its magnitude is
\* under 1 and uses a wire rate of magnitude 1 or more unchanged: a ticker
\* whose rate under this rule is within 50 gives one event with that rate.
C12_RateScale ==
    (OneGoodTicker
       /\ FLeInt(FAbs(RateByMagnitude(obs.message.items[1].r)), 50))
    => \A updates \in { ParserResult(obs.src, obs.message, obs.t) } :
          /\ Len(updates) = 1
          /\ updates[1].funding_rate = RateByMagnitude(obs.message.items[1].r)

\* The events of the filter map and of the queue.
HeldEvents ==
    { last_funding_data[k] : k \in DOMAIN last_funding_data }
    \cup { update_queue[i] : i \in 1..Len(update_queue) }

\* C13: every event of the filter map and of the queue (the parsers supply no
\* APR) has apr = |funding_rate| * 3 * 365, the value the float arithmetic
\* gives for that rate (NaN for the rate NaN).
C13_AprDerivation ==
    \A e \in HeldEvents : e.apr = FMulInt(FMulInt(FAbs(e.funding_rate), 3), 365)

\* The rate 0.05 is queued with the APR 54.75.
C13_Witness ==
    \E i \in 1..Len(update_queue) :
        /\ update_queue[i].funding_rate = Fin(500)
        /\ update_queue[i].apr = Fin(547500)

\* The item carries the rate zero or no rate field.
ZeroOrNoRate(item) ==
    item.obj /\ (item.rk = "missing" \/ (item.rk = "num" /\ item.r = 0))

\* C14: an item with the rate zero or without a rate field produces no event
\* (the parser returns at most one event for each other item), and no event
\* with funding_rate = 0 is returned by a parser, stored or queued.
C14_NoZeroRate ==
    /\ \A e \in HeldEvents : e.funding_rate # Fin(0)
    /\ obs.op = "message"
       => \A updates \in { ParserResult(obs.src, obs.message, obs.t) } :
             /\ \A i \in 1..Len(updates) : updates[i].funding_rate # Fin(0)
             /\ Len(updates) <= Cardinality({ i \in 1..Len(obs.message.items) :
                                    ~ZeroOrNoRate(obs.message.items[i]) })

\* A payload whose first item has the rate zero or none and whose second
\* item was accepted.
C14_Witness ==
    /\ obs.op = "message"
    /\ Len(obs.message.items) = 2
    /\ ZeroOrNoRate(obs.message.items[1])
    /\ "accepted" \in obs.tags
    /\ Len(update_queue) > 0

\* C15: every event of the filter map and of the queue has a symbol of at
\* least two characters that is not a member of TOP_50_COINS, whatever the
\* letter case and the quote currency of the instrument names received.
C15_SymbolAllowed ==
    \A e \in HeldEvents : Len(e.symbol) >= 2 /\ e.symbol \notin TOP_50_COINS

\* Payloads named BTCUSDT, btcusdt and BTCUSDC have been received, and events
\* are held.
C15_Witness ==
    /\ obs.op = "message"
    /\ Len(obs.message.items) = 1
    /\ obs.message.items[1].s = nBTC
    /\ \E e \in HeldEvents : e.symbol = StripQuote(nbtc)
    /\ \E e \in HeldEvents : e.symbol = StripQuote(nBTCUSDC)

\* ------------------------------------------------ specification: consumer
\* The consumer task next to the supervisors.  Binance sends XYZ at 0.0020
\* (APR 219), XYZ at 0.0005 (APR 54.75) and the pair of XYZ at 0.0005 and QQ
\* at -0.0020; bybit sends XYZ at 0.0020.  The clock stands still, so every
\* key is accepted once.
ConsumerMessages(s) ==
    IF s = "binance"
    THEN { Envelope(s, << Item(TRUE, TRUE, nXYZ, "num", 20) >>),
           Envelope(s, << Item(TRUE, TRUE, nXYZ, "num", 5) >>),
           Envelope(s, << Item(TRUE, TRUE, nXYZ, "num", 5),
                          Item(TRUE, TRUE, nQQ, "num", -20) >>) }
    ELSE { GoodTicker(s) }

NextConsumer ==
    \/ start_monitoring
    \/ \E s \in Sources : LoopTest(s)
    \/ \E s \in Sources : ConnectSucceeds(s)
    \/ \E s \in Sources : Subscribed(s)
    \/ \E s \in Sources : \E message \in ConsumerMessages(s) : Receive(s, message)
    \/ ConsumerStep
    \/ CallbackReturns
    \/ CallbackRaises

SpecConsumer == Init /\ [][NextConsumer]_vars

\* C16: the number of pending events stays under a fixed capacity (any
\* capacity below the length MaxQueue the exploration goes up to), whatever
\* the arrival rate is relative to the consumer's drain rate.
C16_QueueBounded == Len(update_queue) < MaxQueue

\* C17: the enqueue of an accepted event never waits on the consumer: the
\* step of a supervisor that accepts events has put them at the tail of the
\* queue, whatever the queue held and wherever the consumer task stands, and
\* leaves the supervisor streaming and the consumer task untouched.
C17_EnqueueNeverWaits ==
    [][(obs'.op = "message" /\ "accepted" \in obs'.tags)
       => /\ Len(update_queue') > Len(update_queue)
          /\ SubSeq(update_queue', 1, Len(update_queue)) = update_queue
          /\ pc'[obs'.src] = "Streaming"
          /\ pcConsumer' = pcConsumer
          /\ inflight' = inflight]_vars

\* An event was accepted and queued behind a pending one while the consumer
\* was in the callback.
C17_Witness ==
    /\ obs.op = "message"
    /\ "accepted" \in obs.tags
    /\ pcConsumer = "Callback"
    /\ Len(update_queue) = MaxQueue

\* The events a pass of the consumer loop took from the head of the queue.
Taken == SubSeq(update_queue, 1, Len(update_queue) - Len(update_queue'))

\* C18: the callback runs on a non-empty sequence of events with
\* apr >= alert_apr_threshold (100) only; a pass of the consumer loop takes
\* the events with a lower APR from the queue too, leaves the count of
\* accepted updates as it is and passes none of them to the callback.
C18_CallbackOnlyAlerts ==
    /\ [](pcConsumer = "Callback"
          => /\ inflight # <<>>
             /\ \A i \in 1..Len(inflight) : FGeInt(inflight[i].apr, 100))
    /\ [][obs'.op = "consumer"
          => /\ update_queue' = SubSeq(update_queue, Len(Taken) + 1,
                                       Len(update_queue))
             /\ stats'.total_updates = stats.total_updates
             /\ \A i \in 1..Len(Taken) :
                   FLtInt(Taken[i].apr, 100)
                   => \A j \in 1..Len(inflight') : inflight'[j] # Taken[i]
             /\ (\A i \in 1..Len(Taken) : FLtInt(Taken[i].apr, 100))
                => pcConsumer' = "Idle"]_vars

\* The consumer took an event with the APR 54.75 and one with the APR 219
\* from the queue in one pass and is in the callback with the second alone.
C18_Witness ==
    /\ obs.op = "consumer"
    /\ pcConsumer = "Callback"
    /\ Len(inflight) = 1
    /\ update_queue = <<>>
    /\ stats.total_updates = 2
    /\ \E k \in DOMAIN last_funding_data :
          last_funding_data[k].apr = Fin(547500)

\* ------------------------------------------------ specification: drain
\* The consumer on a long queue.  Source s has sent XYZ at 0.0020; the
\* consumer took the event and awaits the callback; while the callback runs,
\* s sends n more tickers of XYZ, one a minute, at 0.0005 and 0.0020 in
\* turn, and each of them is accepted and queued.
BacklogItem(i) ==
    IF i % 2 = 1 THEN Item(TRUE, TRUE, nXYZ, "num", 20)
    ELSE Item(TRUE, TRUE, nXYZ, "num", 5)

\* The filter map, the queue and the count after the tickers i..n, the
\* ticker i arriving at the second 60 * (i - 1).
RECURSIVE Backlog(_, _, _, _)
Backlog(s, i, n, st) ==
    IF i > n THEN st
    ELSE \* one call, evaluated once, and the rest on its result
         CHOOSE r \in { Backlog(s, i + 1, n, res) :
                          res \in { process_websocket_message(s,
                                       Envelope(s, << BacklogItem(i) >>),
                                       60 * (i - 1),
                                       st.lfd, st.queue, st.total) } } : TRUE

InitBacklog ==
    \E s \in Sources : \E n \in 0..MaxBacklog :
       \E st \in { Backlog(s, 1, n + 1, [lfd |-> <<>>, queue |-> <<>>, total |-> 0,
                                                log |-> <<>>]) } :
          /\ now = 60 * n
          /\ is_running = TRUE
          /\ pc = [x \in Sources |-> "Streaming"]
          /\ reconnect_count = [x \in Sources |-> 0]
          /\ connections = Sources
          /\ last_funding_data = st.lfd
          /\ update_queue = Tail(st.queue)
          /\ stats = [total_updates |-> st.total, alerts_sent |-> 0,
                      connections_lost |-> 0]
          /\ pcConsumer = "Callback"
          /\ inflight = << Head(st.queue) >>
          /\ pcCleanup = "Idle"
          /\ attempts = [x \in Sources |-> 0]
          /\ stopping = NotStopping
          /\ obs = Obs("backlog", s, {})

NextDrain ==
    \/ ConsumerStep
    \/ CallbackReturns
    \/ CallbackRaises

SpecDrain == InitBacklog /\ [][NextDrain]_vars

\* C19: a pass of the consumer loop takes at most 10 events from the head of
\* the queue and hands its alert-worthy ones on as one batch in queue order;
\* the callback never runs on more than 10 events.
C19_BatchOfTen ==
    /\ [](Len(inflight) <= 10)
    /\ [][obs'.op = "consumer"
          => /\ Len(Taken) <= 10
             /\ update_queue' = SubSeq(update_queue, Len(Taken) + 1,
                                       Len(update_queue))
             /\ inflight' = SelectSeq(Taken,
                                LAMBDA e : FGeInt(e.apr, alert_apr_threshold))
             /\ Len(update_queue) > 10 => update_queue' # <<>>]_vars

\* A pass on a queue of twelve events left two of them and is in the callback
\* with the five alert-worthy ones of the ten it took.
C19_Witness ==
    /\ obs.op = "consumer"
    /\ Len(update_queue) = 2
    /\ Len(inflight) = 5
    /\ pcConsumer = "Callback"
    /\ stats.total_updates = 13

\* C20: an exception of the callback is caught: the step in which it is
\* raised leaves the consumer loop running (back at its next pass), the flag
\* and the queue as they were and the alerts uncounted; and every pass that
\* finds an alert-worthy event among the first 10 of the queue, the first
\* pass after an exception included, hands a batch to the callback.
C20_CallbackFailureContained ==
    /\ [][obs'.op = "callback_raises"
          => /\ pcConsumer' = "Idle"
             /\ is_running' = is_running
             /\ update_queue' = update_queue
             /\ stats' = stats]_vars
    /\ [][(obs'.op = "consumer" /\ is_running
             /\ \E i \in 1..Len(update_queue) :
                   i <= 10 /\ FGeInt(update_queue[i].apr, alert_apr_threshold))
          => /\ pcConsumer' = "Callback"
             /\ inflight' # <<>>]_vars

\* The first pass after an exception of the callback handed a batch to the
\* callback.
C20_Witness ==
    /\ obs.op = "consumer"
    /\ "after_raise" \in obs.tags
    /\ pcConsumer = "Callback"
    /\ inflight # <<>>
    /\ stats.alerts_sent = 0

\* get_stats()['active_connections']: len(self.connections)
active_connections == Cardinality(connections)

\* C21: the active-connection count of get_stats equals the number of
\* supervisors in Streaming; a supervisor in the reconnect delay or
\* reconnecting after a lost connection is not counted.
C21_ActiveCount ==
    active_connections = Cardinality({ s \in Sources : pc[s] = "Streaming" })

\* ------------------------------------------------ specification: stop
\* The whole monitor with a stop request: the supervisors connect, fail to
\* connect, subscribe and stream, each source sends XYZ at 0.0020, the
\* consumer and the sweep run, and stop_monitoring is called at any moment
\* after the start.
NextStop ==
    \/ start_monitoring
    \/ \E s \in Sources : LoopTest(s)
    \/ \E s \in Sources : ConnectFails(s)
    \/ \E s \in Sources : ConnectSucceeds(s)
    \/ \E s \in Sources : Subscribed(s)
    \/ \E s \in Sources : \E message \in SupMessages(s) : Receive(s, message)
    \/ \E s \in Sources : ClosedByStop(s)
    \/ ConsumerStep
    \/ CallbackReturns
    \/ CleanupStep
    \/ stop_monitoring
    \/ StopContinues
    \/ GatherReturns

SpecStop == Init /\ [][NextStop]_vars

\* The same under the scheduling of the event loop: a task that can run
\* does run (the reconnect sleep ends, a connection attempt succeeds or
\* fails, the subscription returns, a websocket closed by stop_monitoring
\* ends its receive loop, the callback returns, the sleeps of the consumer
\* and of the sweep end, close() returns).  Nothing makes a source send a
\* payload or close an open connection.
FairStop ==
    /\ \A s \in Sources :
          /\ WF_vars(LoopTest(s))
          /\ WF_vars(ConnectFails(s) \/ ConnectSucceeds(s))
          /\ WF_vars(Subscribed(s))
          /\ WF_vars(ClosedByStop(s))
    /\ WF_vars(ConsumerStep)
    /\ WF_vars(CallbackReturns)
    /\ WF_vars(CleanupStep)
    /\ WF_vars(StopContinues)
    /\ WF_vars(GatherReturns)

SpecStopFair == Init /\ [][NextStop]_vars /\ FairStop

\* C22: after stop_monitoring has been called, whatever state each
\* supervisor was in, every supervisor task, the consumer task and the
\* sweep task eventually terminate.
C22_StopConverges == (stopping.pc # "NotCalled") ~> AllTasksDone

\* C23: the consumer drains before it stops: process_updates terminates
\* only with an empty queue, every event queued at the stop request having
\* been taken and processed before.
C23_DrainBeforeStop ==
    [][(pcConsumer # "Exited" /\ pcConsumer' = "Exited")
       => update_queue = <<>>]_vars

\* C24: failures are isolated per source: a step of the supervisor of s (a
\* failed or successful connection attempt, a lost connection, a payload it
\* cannot parse, its end after the last retry) leaves the state, the
\* connection entry and the attempt counters of every other supervisor as
\* they were, so that a supervisor that is Streaming is still Streaming, and
\* receiving, after it.
C24_FailuresIsolated ==
    [][\A s \in Sources :
          obs'.src = s
          => \A x \in Sources \ {s} :
                /\ pc'[x] = pc[x]
                /\ reconnect_count'[x] = reconnect_count[x]
                /\ attempts'[x] = attempts[x]
                /\ (x \in connections') = (x \in connections)]_vars

\* A supervisor has received and queued an event while the other one is
\* Failed.
C24_Witness ==
    /\ obs.op = "message"
    /\ "accepted" \in obs.tags
    /\ pc[obs.src] = "Streaming"
    /\ \E s \in Sources \ {obs.src} : Failed(s)

\* C25: only a stop request ends the pipeline: is_running goes from true to
\* false in a call of stop_monitoring from outside only, and while it is
\* true the consumer and the sweep task are running, also when every
\* supervisor is Failed.
C25_OnlyStopTerminates ==
    /\ [][(is_running /\ ~is_running') => obs'.op = "stop"]_vars
    /\ [](is_running => /\ pcConsumer \in {"Idle", "Callback"}
                        /\ pcCleanup = "Idle"
                        /\ stopping.pc = "NotCalled")

\* Every supervisor is Failed and the sweep has just run.
C25_Witness ==
    /\ \A s \in Sources : Failed(s)
    /\ is_running
    /\ obs.op = "cleanup"
    /\ pcConsumer = "Idle"

\* The events of exchange ex in seq, in their order.
PerSource(seq, ex) == SelectSeq(seq, LAMBDA e : e.exchange = ex)

\* The events process_websocket_message accepted, in the order of the
\* payload.
AcceptedOf(log) ==
    LET accepted == SelectSeq(log, LAMBDA e : e.accept)
    IN [i \in 1..Len(accepted) |-> accepted[i].out]

\* C26: the events of one source keep their receive order: a payload's
\* accepted events go to the tail of the queue in the order of the payload,
\* behind everything queued before; a pass of the consumer takes from the
\* head, and of every source the alert-worthy events it took are in the
\* batch in the order they had in the queue, the others staying queued in
\* their order; a batch is replaced only by such a pass.
C26_OrderKept ==
    /\ [][obs'.op = "message"
          => /\ update_queue' =
                   update_queue \o AcceptedOf(CallResult(obs'.src, obs'.message).log)
             /\ inflight' = inflight]_vars
    /\ [][obs'.op = "consumer"
          => \A ex \in {"Binance", "Bybit"} :
                /\ PerSource(inflight', ex) =
                      SelectSeq(PerSource(Taken, ex),
                                LAMBDA e : FGeInt(e.apr, alert_apr_threshold))
                /\ PerSource(Taken, ex) \o PerSource(update_queue', ex) =
                      PerSource(update_queue, ex)]_vars
    /\ [][(inflight' # inflight /\ inflight' # <<>>) => obs'.op = "consumer"]_vars

\* Two events of one source, queued one after the other, are in one batch in
\* that order.
C26_Witness ==
    /\ obs.op = "consumer"
    /\ Len(inflight) = 2
    /\ inflight[1].exchange = inflight[2].exchange
    /\ inflight[1].symbol # inflight[2].symbol
    /\ pcConsumer = "Callback"

\* C27: the callback is never invoked twice at the same time: a pass of the
\* consumer loop, which is what hands a batch to the callback, begins only
\* when no invocation is running; an invocation begins with no batch in
\* flight; and while it runs the batch in flight stays the same, whatever
\* the supervisors receive and queue meanwhile.
C27_OneInvocation ==
    /\ [][obs'.op = "consumer" => pcConsumer = "Idle"]_vars
    /\ [][(pcConsumer # "Callback" /\ pcConsumer' = "Callback")
          => inflight = <<>>]_vars
    /\ [][(pcConsumer = "Callback" /\ pcConsumer' = "Callback")
          => inflight' = inflight]_vars

\* The callback has returned from one batch and runs on the next one, while
\* a further event, received during the invocation, waits in the queue.
C27_Witness ==
    /\ pcConsumer = "Callback"
    /\ stats.alerts_sent >= 1
    /\ obs.op = "message"
    /\ "accepted" \in obs.tags
    /\ update_queue # <<>>

\* C28: the attempt counter of a supervisor is zero after every payload it
\* has received (it is zero all the time the supervisor is Streaming), so a
\* connection lost from Streaming counts as the first and losses with
\* streaming in between never add up.
C28_CounterResets ==
    /\ [](\A s \in Sources : pc[s] = "Streaming" => reconnect_count[s] = 0)
    /\ [][obs'.op = "message" => reconnect_count'[obs'.src] = 0]_vars
    /\ [][obs'.op = "closed_error" => reconnect_count'[obs'.src] = 1]_vars

\* Binance alone has connected; it has received a payload and has lost its
\* connection for the second time, and its counter is 1.
C28_Witness ==
    /\ obs.op = "closed_error"
    /\ obs.src = "binance"
    /\ pc["bybit"] = "Disconnected"
    /\ stats.connections_lost = 2
    /\ stats.total_updates = 1
    /\ reconnect_count["binance"] = 1

\* The supervisor of s has used up its attempts and left its loop.
GaveUp(s) == pc[s] = "Exited" /\ reconnect_count[s] >= max_reconnects

\* C29: a supervisor that has reached Failed stays there: its source is not
\* among the connections, it takes no further step (no connection attempt,
\* no reconnect delay, no payload), its counters stay as they are, and no
\* event of its exchange is added to the queue.
C29_FailedIsTerminal ==
    /\ [](\A s \in Sources : GaveUp(s) => s \notin connections)
    /\ [][\A s \in Sources :
             GaveUp(s)
             => /\ GaveUp(s)'
                /\ obs'.src # s
                /\ attempts'[s] = attempts[s]
                /\ reconnect_count'[s] = reconnect_count[s]
                /\ s \notin connections'
                /\ \A i \in (Len(update_queue) + 1)..Len(update_queue') :
                      update_queue'[i].exchange #
                         (IF s = "binance" THEN "Binance" ELSE "Bybit")]_vars

\* Binance is Failed after a lost connection and nine failed attempts, and
\* bybit has connected since.
C29_Witness ==
    /\ GaveUp("binance")
    /\ stats.connections_lost >= 1
    /\ pc["bybit"] = "Subscribing"
    /\ obs.op = "connect_succeeds"
    /\ connections = {"bybit"}

\* The events a step appended to the queue.
Added ==
    SubSeq(update_queue', Len(update_queue) + 1, Len(update_queue'))

\* The accepted event e is what should_process_update makes of a reading
\* judged against the filter map lfd.
JudgedAgainst(e, lfd) ==
    IF Key(e) \in DOMAIN lfd
    THEN LET last_update == lfd[Key(e)]
         IN /\ ~InsideWindow(e, last_update)
            /\ e.change_percent = ChangePercent(e, last_update)
            /\ ~Insignificant(e.change_percent)
    ELSE QEq(e.change_percent, QZero)

\* C30: the filter's read of the prior entry and its write of the new one
\* are one step with respect to every other task.  A step that handles a
\* message accepts each of its events against the entry the map held for the
\* key when the step began, accepts at most one event per key, leaves that
\* event in the map and leaves every other key's entry alone; a sweep only
\* removes entries and touches neither the queue nor a remaining entry; no
\* other step writes the map; and the entry of every key in the map is the
\* last event accepted for that key, so no accepted update is lost.
C30_FilterAtomic ==
    /\ [][obs'.op = "message"
          => /\ \A i \in 1..Len(Added) :
                   /\ JudgedAgainst(Added[i], last_funding_data)
                   /\ Key(Added[i]) \in DOMAIN last_funding_data'
                   /\ last_funding_data'[Key(Added[i])] = Added[i]
                   /\ \A j \in 1..Len(Added) :
                         Key(Added[j]) = Key(Added[i]) => j = i
             /\ \A k \in DOMAIN last_funding_data' :
                   \/ \E i \in 1..Len(Added) : Key(Added[i]) = k
                   \/ /\ k \in DOMAIN last_funding_data
                      /\ last_funding_data'[k] = last_funding_data[k]
             /\ DOMAIN last_funding_data \subseteq DOMAIN last_funding_data'
         ]_vars
    /\ [][obs'.op = "cleanup"
          => /\ update_queue' = update_queue
             /\ DOMAIN last_funding_data' \subseteq DOMAIN last_funding_data
             /\ \A k \in DOMAIN last_funding_data' :
                   last_funding_data'[k] = last_funding_data[k]]_vars
    /\ [][obs'.op \notin {"message", "cleanup"}
          => last_funding_data' = last_funding_data]_vars
    /\ [](\A k \in DOMAIN last_funding_data :
            \E i \in 1..Len(update_queue) :
               /\ update_queue[i] = last_funding_data[k]
               /\ Key(update_queue[i]) = k
               /\ \A j \in (i + 1)..Len(update_queue) :
                     Key(update_queue[j]) # k)

\* Binance sent XYZ twice in one payload while bybit's entry for XYZ was in
\* the map: the first reading was accepted against the empty slot of its key
\* and recorded, the second was judged against the first and rejected.
C30_Witness ==
    /\ obs.op = "message"
    /\ obs.src = "binance"
    /\ obs.message = Envelope("binance", << Item(TRUE, TRUE, nXYZ, "num", 20),
                                            Item(TRUE, TRUE, nXYZ, "num", 22) >>)
    /\ {"accepted", "gate"} \subseteq obs.tags
    /\ Cardinality(DOMAIN last_funding_data) = 2
    /\ Len(update_queue) = 2
    /\ update_queue[1].exchange = "Bybit"
    /\ update_queue[2].exchange = "Binance"
    /\ update_queue[2].funding_rate = update_queue[1].funding_rate

\* ------------------------------------------------ specification: handshake
\* The supervisors with a subscription whose send can fail.
NextHandshake ==
    \/ start_monitoring
    \/ \E s \in Sources : LoopTest(s)
    \/ \E s \in Sources : ConnectFails(s)
    \/ \E s \in Sources : ConnectSucceeds(s)
    \/ \E s \in Sources : Subscribed(s)
    \/ \E s \in Sources : SubscribeFails(s)
    \/ \E s \in Sources : \E message \in SupMessages(s) : Receive(s, message)
    \/ \E s \in Sources :
          stats.connections_lost < MaxLost /\ ConnectionClosedError(s)
    \/ \E s \in Sources : ConnectionClosedOK(s)

SpecHandshake == Init /\ [][NextHandshake]_vars

\* C31: a supervisor enters its receive loop only by a step in which the
\* subscription was sent on the connection; after a failed send the
\* connection is not used for receiving.
C31_HandshakeBeforeStreaming ==
    [][\A s \in Sources :
          (pc[s] # "Streaming" /\ pc'[s] = "Streaming")
          => (obs'.op = "subscribed" /\ obs'.src = s)]_vars

\* C32: the attempt counter of a source goes back to zero only in a step
\* that receives a payload from that source; a connection that opens,
\* subscribes and is lost before a payload arrives leaves the counter of the
\* earlier failures in place.
C32_ResetOnlyByPayload ==
    [][\A s \in Sources :
          (reconnect_count[s] > 0 /\ reconnect_count'[s] = 0)
          => (obs'.op = "message" /\ obs'.src = s)]_vars

\* C33: a reading that should_process_update rejects (below the floor,
\* inside the 60-second window, or changed by less than 10 %) leaves the
\* filter map as it was; a message of which nothing is accepted leaves every
\* entry with its rate and timestamp.
C33_RejectionKeepsMap ==
    /\ [](\A s \in Streaming : \A message \in FilterMessages(s) :
          \A res \in { CallResult(s, message) } : \A i \in 1..Len(res.log) :
             ~res.log[i].accept
             => res.log[i].lfd_after = res.log[i].lfd_before)
    /\ [][(obs'.op = "message" /\ update_queue' = update_queue)
          => last_funding_data' = last_funding_data]_vars

\* A reading of XYZ that came 60 seconds or more after the stored one with a
\* change under 10 % was rejected, and the stored entry is still the older
\* reading.
C33_Witness ==
    /\ obs.op = "message"
    /\ "small" \in obs.tags
    /\ "accepted" \notin obs.tags
    /\ \E k \in DOMAIN last_funding_data :
          now - last_funding_data[k].timestamp >= 60

\* The keys whose accepted events are all older than the retention at the
\* time of the sweep that has just evicted entries.
JustEvicted ==
    IF obs.op = "cleanup" /\ "evicted" \in obs.tags
    THEN { k \in { Key(update_queue[j]) : j \in 1..Len(update_queue) } :
             \A j \in 1..Len(update_queue) :
                Key(update_queue[j]) = k
                => update_queue[j].timestamp < now - RetentionSeconds }
    ELSE {}

\* C34: the first reading of a key that arrives after the sweep evicted the
\* key's entry, with an APR at or above the floor, is accepted as a first
\* sighting: it is queued as it was parsed, with change_percent 0, whatever
\* its rate is next to the evicted reading's, and it becomes the key's entry.
C34_FirstAfterEviction ==
    [][obs'.op = "message"
       => \A updates \in { ParserResult(obs'.src, obs'.message, now) } :
          \A i \in 1..Len(updates) :
             ( /\ Key(updates[i]) \in JustEvicted
               /\ FGeInt(updates[i].apr, min_apr_threshold)
               /\ \A h \in 1..(i - 1) : Key(updates[h]) # Key(updates[i]) )
             => /\ \E a \in 1..Len(Added) : Added[a] = updates[i]
                /\ QEq(updates[i].change_percent, QZero)
                /\ Key(updates[i]) \in DOMAIN last_funding_data'
      ]_vars

\* XYZ was accepted, evicted by the sweep more than an hour later, and
\* accepted again at the same rate with change_percent 0.
C34_Witness ==
    /\ obs.op = "message"
    /\ "first" \in obs.tags
    /\ Len(update_queue) = 2
    /\ Key(update_queue[1]) = Key(update_queue[2])
    /\ update_queue[2].funding_rate = update_queue[1].funding_rate
    /\ update_queue[2].timestamp - update_queue[1].timestamp > RetentionSeconds
    /\ QEq(update_queue[2].change_percent, QZero)
    /\ last_funding_data[Key(update_queue[2])] = update_queue[2]

\* The events a step took from the head of the queue.
Dequeued ==
    IF obs'.op = "consumer" THEN Taken ELSE <<>>

\* C35: accepted events are conserved.  Nothing is counted or queued before
\* the tasks start; every step changes total_updates by the number of events
\* it appended to the queue, so total_updates is always the number of events
\* dequeued so far plus the length of the queue; only a pass of the consumer
\* removes events, it removes them from the head, for good, and hands on
\* none but these, so no event is in two batches.
C35_Conservation ==
    /\ [](pcConsumer = "NotStarted"
          => stats.total_updates = 0 /\ update_queue = <<>>)
    /\ [][/\ stats'.total_updates - stats.total_updates
             = Len(update_queue') + Len(Dequeued) - Len(update_queue)
          /\ SubSeq(update_queue', 1, Len(update_queue) - Len(Dequeued))
             = SubSeq(update_queue, Len(Dequeued) + 1, Len(update_queue))
          /\ obs'.op = "consumer"
             => /\ update_queue' = SubSeq(update_queue, Len(Dequeued) + 1,
                                          Len(update_queue))
                /\ \A i \in 1..Len(inflight') :
                      \E j \in 1..Len(Dequeued) : Dequeued[j] = inflight'[i]
          /\ obs'.op # "consumer"
             => /\ Len(update_queue') >= Len(update_queue)
                /\ inflight' = <<>> \/ inflight' = inflight
         ]_vars

\* Three events were accepted: two have been dequeued (one of them is with
\* the callback) and the third was queued during the callback.
C35_Witness ==
    /\ stats.total_updates = 3
    /\ Len(update_queue) = 1
    /\ pcConsumer = "Callback"
    /\ obs.op = "message"
    /\ Len(inflight) = 1
    /\ \A i \in 1..Len(inflight) : inflight[i] # update_queue[1]

\* The alert-worthy events that have left the queue.  (Under ConsumerMessages
\* every key is accepted once, so the filter map holds every accepted event.)
DequeuedAlerts ==
    { k \in DOMAIN last_funding_data :
        /\ IsHighApr(last_funding_data[k])
        /\ \A i \in 1..Len(update_queue) :
              update_queue[i] # last_funding_data[k] }

\* C36: alerts_sent grows by the number of events of a run of the callback
\* when that run returns, and in no other step: a run that raises leaves it
\* as it is.  It never exceeds the number of dequeued events with
\* apr >= alert_apr_threshold (those with the callback not yet counted).
C36_AlertsCounted ==
    /\ [][/\ obs'.op = "callback_returns"
             => stats'.alerts_sent = stats.alerts_sent + Len(inflight)
          /\ obs'.op # "callback_returns"
             => stats'.alerts_sent = stats.alerts_sent]_vars
    /\ [](stats.alerts_sent + Len(inflight) <= Cardinality(DequeuedAlerts))

\* Two alert-worthy events went to the callback one after the other: the
\* first run raised, the second has returned and is the only one counted.
C36_Witness ==
    /\ obs.op = "callback_returns"
    /\ stats.alerts_sent = 1
    /\ Cardinality(DequeuedAlerts) = 2
    /\ update_queue = <<>>

\* ------------------------------------------------ specification: fair consumer
\* The consumer under the scheduling of the event loop: the sleep of
\* process_updates ends and the loop makes its next pass, and a run of the
\* callback ends, by returning or by raising.  Nothing makes a source
\* connect or send.
FairConsumer ==
    /\ WF_vars(ConsumerStep)
    /\ WF_vars(CallbackReturns \/ CallbackRaises)

SpecConsumerFair == Init /\ [][NextConsumer]_vars /\ FairConsumer

\* The exchange field of the events of source s.
ExchangeOf(s) == IF s = "binance" THEN "Binance" ELSE "Bybit"

\* An event of source s with apr >= alert_apr_threshold is in the queue.
AlertQueued(s) ==
    \E i \in 1..Len(update_queue) :
       /\ update_queue[i].exchange = ExchangeOf(s)
       /\ IsHighApr(update_queue[i])

\* The callback is running on a batch that holds an event of source s.
AlertWithCallback(s) ==
    /\ pcConsumer = "Callback"
    /\ \E j \in 1..Len(inflight) :
          /\ inflight[j].exchange = ExchangeOf(s)
          /\ IsHighApr(inflight[j])

\* C37: while the monitor runs, every queued event with
\* apr >= alert_apr_threshold is eventually passed to the callback.  (No
\* stop is requested in this specification, and each source has at most one
\* such event.)
C37_AlertDelivered ==
    /\ AlertQueued("binance") ~> AlertWithCallback("binance")
    /\ AlertQueued("bybit") ~> AlertWithCallback("bybit")

\* The alert-worthy event of bybit was queued while the callback ran on that
\* of binance, and is with the callback now, after that run raised.
C37_Witness ==
    /\ AlertWithCallback("bybit")
    /\ ~AlertWithCallback("binance")
    /\ "after_raise" \in obs.tags
    /\ stats.total_updates >= 2
    /\ stats.alerts_sent = 0

\* C38: once stop_monitoring has been called, no supervisor starts a
\* connection attempt, none opens and registers a connection or enters its
\* receive loop, and no event is added to the queue.
C38_QuietAfterStop ==
    [][stopping.pc # "NotCalled"
       => /\ \A s \in Sources :
                /\ (pc'[s] = "Connecting" => pc[s] = "Connecting")
                /\ (pc'[s] = "Subscribing" => pc[s] = "Subscribing")
                /\ (pc'[s] = "Streaming" => pc[s] = "Streaming")
                /\ (s \in connections' => s \in connections)
          /\ Len(update_queue') <= Len(update_queue)]_vars

\* C39: stop_monitoring does not end in an exception, and once it has
\* returned no source is among the connections.
C39_StopCompletes ==
    /\ stopping.pc # "Raised"
    /\ stopping.pc = "Done" => connections = {}

====
